---- MODULE Spec2Model ----
(***************************************************************************)
(* A model of the jenkins package of landervdb/jenkins_exporter,           *)
(*   - build.go   (second half of src/jenkins/jobpath.go): parseBuild,     *)
(*                newBuildFromXML, getEnvVars, forceXMLVersion             *)
(*   - job.go     Job.fetch, Job.selectLastBuild, parsePermalinks          *)
(*   - jobpath.go GetJobPaths, parseJobFolder, parseChildJobs,             *)
(*                parseBuildPath, contains, JobPath.Parse                  *)
(* and of Collector.Collect of main.go, which runs GetJobPaths in a        *)
(* goroutine and parses every path it receives.                            *)
(* Strings that the code parses (numbers, paths) are sequences of          *)
(* one-character strings; all other strings are opaque TLA+ strings.       *)
(* Go errors are modelled by the place that produced them; "nil" is the    *)
(* nil error and "panic" a run-time panic that unwinds the caller.         *)
(***************************************************************************)
EXTENDS Integers, Sequences, FiniteSets, TLC

VARIABLES
    pc,        \* position of the sequential code under analysis, or of the receiver
    wpc,       \* position of the goroutine that runs GetJobPaths
    job,       \* the Job value (job.go:26-36)
    err,       \* the error returned by the operation that ran last
    disk,      \* the job folder on disk that Job.fetch reads
    tree,      \* the directory tree below JobPathOpts.Root
    opts,      \* JobPathOpts.IgnoreList
    resultChan,\* the unbuffered channel of JobPaths: <<>> or one pending send
    closed,    \* TRUE once resultChan has been closed
    pending,   \* the sends the walker has still to perform, in order
    walkErr,   \* the error GetJobPaths is going to return / has returned
    received,  \* the JobPaths taken from resultChan by the receiver, in order
    contents,  \* what the builds directory of the job folder of each name holds
    gauges,    \* the GaugeVecs of the Collector (main.go:44-61), by label values
    ch         \* the metrics sent on the channel Collect was given, in order

vars == <<pc, wpc, job, err, disk, tree, opts, resultChan, closed, pending, walkErr, received,
          contents, gauges, ch>>

-----------------------------------------------------------------------------
(* Bounds of the model *)

\* largest build number drawn for a category build
MaxNumber == 2
\* largest number of lines of a permalinks file
MaxLines == 2
\* largest number of job folders below the root of a tree
MaxFolders == 2
\* the same for the trees that also hold regular files named jobs or builds
MaxOddFolders == 1
\* largest number of job names s1 .. sn on a job path
MaxSegments == 3
\* largest number of entries of the environment section of a build.xml
MaxEntries == 2
\* largest number of job folders below the root of a tree that is scanned
\* several times
MaxScanFolders == 1

-----------------------------------------------------------------------------
(* Builds: build.go *)

Nil == "nil"

NoEnv == [k \in {} |-> <<>>]

\* the zero value of buildXML
ZeroRaw == [Result |-> "", Timestamp |-> 0, Duration |-> 0, Number |-> 0, Entries |-> <<>>]

\* the zero value of Build
ZeroBuild ==
    [raw |-> ZeroRaw, Number |-> 0, Timestamp |-> 0, Duration |-> 0,
     Result |-> "", EnvVars |-> NoEnv]

\* strconv.ParseInt(s, 10, 64) on a string given as a sequence of characters
Digits == {"0", "1", "2", "3", "4", "5", "6", "7", "8", "9"}

DigitValue(c) ==
    CASE c = "0" -> 0 [] c = "1" -> 1 [] c = "2" -> 2 [] c = "3" -> 3 [] c = "4" -> 4
      [] c = "5" -> 5 [] c = "6" -> 6 [] c = "7" -> 7 [] c = "8" -> 8 [] c = "9" -> 9

RECURSIVE DecimalValue(_)
DecimalValue(s) ==
    IF s = <<>> THEN 0
    ELSE 10 * DecimalValue(SubSeq(s, 1, Len(s) - 1)) + DigitValue(s[Len(s)])

\* a sign is optional, at least one digit must follow, anything else is a
\* syntax error; the strings of the model are far below the 64 bit range
ParseInt(s) ==
    LET signed == s # <<>> /\ s[1] \in {"+", "-"}
        digits == IF signed THEN Tail(s) ELSE s
    IN  IF digits = <<>> \/ \E i \in 1..Len(digits) : digits[i] \notin Digits
        THEN [val |-> 0, err |-> "strconv"]
        ELSE [val |-> IF signed /\ s[1] = "-" THEN 0 - DecimalValue(digits)
                      ELSE DecimalValue(digits),
              err |-> Nil]

\* the two declarations forceXMLVersion knows, and the same declaration as
\* other producers write it
Decl11 == "<?xml version='1.1' encoding='UTF-8'?>"
Decl10 == "<?xml version='1.0' encoding='UTF-8'?>"
Decl11Quoted == "<?xml version=\"1.1\" encoding=\"UTF-8\"?>"
NoDecl == ""

\* a mutation of forceXMLVersion that rewrites nothing
forceXMLVersionNone(doc) == doc

\* strings.Replace(str, Decl11, Decl10, 1) on a document whose first line is
\* doc.decl
forceXMLVersion(doc) ==
    [doc EXCEPT !.decl = IF @ = Decl11 THEN Decl10 ELSE @]

\* xml.Unmarshal into buildXML: encoding/xml accepts no declaration or a
\* declaration of version 1.0 and rejects every other version; a body that
\* is not well formed is rejected too
xmlUnmarshal(doc) ==
    IF doc.decl \in {Decl11, Decl11Quoted} \/ ~doc.ok
    THEN [raw |-> ZeroRaw, err |-> "xml"]
    ELSE [raw |-> [Result |-> doc.Result, Timestamp |-> doc.Timestamp,
                   Duration |-> doc.Duration, Number |-> doc.Number,
                   Entries |-> doc.Entries],
          err |-> Nil]

\* envVars[e.Values[0]] = e.Values[1] for every entry in order; an entry with
\* fewer than two strings makes the index expression panic
RECURSIVE getEnvVarsFrom(_, _)
getEnvVarsFrom(entries, envVars) ==
    IF entries = <<>> THEN [env |-> envVars, err |-> Nil]
    ELSE LET e == Head(entries)
         IN  IF Len(e) < 2 THEN [env |-> envVars, err |-> "panic"]
             ELSE getEnvVarsFrom(Tail(entries),
                      [k \in DOMAIN envVars \cup {e[1]} |->
                           IF k = e[1] THEN e[2] ELSE envVars[k]])

getEnvVars(raw) == getEnvVarsFrom(raw.Entries, NoEnv)

\* EnvVars["BUILD_NUMBER"]: a missing key reads as the empty string
EnvLookup(envVars, key) == IF key \in DOMAIN envVars THEN envVars[key] ELSE <<>>

NoFile == [kind |-> "none"]

\* file is the build.xml entry of the build directory: NoFile, a directory
\* (kind "dir") or a regular file holding a document (kind "file")
newBuildFromXML(file) ==
    IF file.kind = "none" THEN [build |-> ZeroBuild, err |-> "open"]
    ELSE IF file.kind = "dir" THEN [build |-> ZeroBuild, err |-> "read"]
    ELSE LET x   == xmlUnmarshal(forceXMLVersion(file.doc))
             b1  == [ZeroBuild EXCEPT !.raw = x.raw]
             ev  == getEnvVars(x.raw)
             b2  == [b1 EXCEPT !.EnvVars = ev.env]
             num == ParseInt(EnvLookup(ev.env, "BUILD_NUMBER"))
         IN  IF x.err # Nil THEN [build |-> b1, err |-> x.err]
             ELSE IF ev.err # Nil THEN [build |-> b1, err |-> ev.err]
             ELSE IF num.err # Nil THEN [build |-> b2, err |-> num.err]
             ELSE [build |-> [b2 EXCEPT !.Number = num.val,
                                        !.Timestamp = x.raw.Timestamp,
                                        !.Duration = x.raw.Duration,
                                        !.Result = x.raw.Result],
                   err |-> Nil]

\* entry is what os.Stat finds at the build path: NoFile, a regular file
\* (kind "file") or a directory (kind "dir") with its build.xml entry
parseBuild(entry) ==
    IF entry.kind = "none" THEN [build |-> ZeroBuild, err |-> "stat"]
    ELSE IF entry.kind = "file" THEN [build |-> ZeroBuild, err |-> "open"]
    ELSE newBuildFromXML(entry.xml)

-----------------------------------------------------------------------------
(* Jobs: job.go *)

ErrStat == "stat builds: no such file or directory"
ErrNotDir == "is not a directory"
ErrPermalinks == "couldn't parse permalinks"
ErrNoBuilds == "no builds found"
Panic == "panic"

\* the error kinds of the design
NotAJob == {ErrStat, ErrNotDir}
NoBuildsFound == {ErrNoBuilds}

Categories ==
    {"lastSuccessfulBuild", "lastUnsuccessfulBuild", "lastStableBuild",
     "lastUnstableBuild", "lastFailedBuild"}

Slot(jb, cat) ==
    CASE cat = "lastSuccessfulBuild" -> jb.LastSuccessfulBuild
      [] cat = "lastUnsuccessfulBuild" -> jb.LastUnsuccessfulBuild
      [] cat = "lastStableBuild" -> jb.LastStableBuild
      [] cat = "lastUnstableBuild" -> jb.LastUnstableBuild
      [] cat = "lastFailedBuild" -> jb.LastFailedBuild

\* Job{path: jp}
NewJob(jp) ==
    [path |-> jp, Name |-> <<>>, Folder |-> <<>>, LastBuild |-> ZeroBuild,
     LastSuccessfulBuild |-> ZeroBuild, LastUnsuccessfulBuild |-> ZeroBuild,
     LastStableBuild |-> ZeroBuild, LastUnstableBuild |-> ZeroBuild,
     LastFailedBuild |-> ZeroBuild]

\* one of the five "if b.Number > max" statements; a mutation compares with >=
selectStepGeq(s, b) ==
    IF b.Number >= s.max THEN [lastBuild |-> b, max |-> b.Number] ELSE s

selectStep(s, b) ==
    IF b.Number > s.max THEN [lastBuild |-> b, max |-> b.Number] ELSE s

\* the last statement of selectLastBuild; a mutation forgets the max == 0 test
selectResultNoCheck(s) == [build |-> s.lastBuild, err |-> Nil]

selectResult(s) ==
    [build |-> s.lastBuild, err |-> IF s.max = 0 THEN ErrNoBuilds ELSE Nil]

selectLastBuild(jb) ==
    LET s0 == [lastBuild |-> ZeroBuild, max |-> 0]
        s1 == selectStep(s0, jb.LastSuccessfulBuild)
        s2 == selectStep(s1, jb.LastStableBuild)
        s3 == selectStep(s2, jb.LastUnsuccessfulBuild)
        s4 == selectStep(s3, jb.LastUnstableBuild)
        s5 == selectStep(s4, jb.LastFailedBuild)
    IN  selectResult(s5)

\* the scanner loop of parsePermalinks: every line is split at the blanks,
\* a line that has not exactly two tokens ends the parse with an error
RECURSIVE scanLines(_, _)
scanLines(lines, permalinks) ==
    IF lines = <<>> THEN [map |-> permalinks, err |-> Nil]
    ELSE LET line == Head(lines)
         IN  IF Len(line) # 2 THEN [map |-> permalinks, err |-> "tokens"]
             ELSE scanLines(Tail(lines),
                      [k \in DOMAIN permalinks \cup {line[1]} |->
                           IF k = line[1] THEN line[2] ELSE permalinks[k]])

\* file is the permalinks entry of the builds directory
parsePermalinks(file) ==
    IF file.kind # "file" THEN [map |-> NoEnv, err |-> "open"]
    ELSE scanLines(file.lines, NoEnv)

\* permalinks[cat]: a missing key reads as the empty string
Permalink(permalinks, cat) == IF cat \in DOMAIN permalinks THEN permalinks[cat] ELSE ""

\* what is found at filepath.Join(buildsPath, name) in the builds directory d;
\* Join drops an empty name, so that the path is the builds directory itself
BuildEntry(d, name) ==
    IF name = "" THEN [kind |-> "dir", xml |-> d.xml]
    ELSE IF name \in DOMAIN d.dirs THEN d.dirs[name]
    ELSE NoFile

\* strings of the path are sequences of characters
HasPrefixAt(s, i, pat) ==
    i + Len(pat) - 1 <= Len(s) /\ SubSeq(s, i, i + Len(pat) - 1) = pat

Whitespace == {" ", "\t", "\n", "\r", "\f"}

SetMin(S) == CHOOSE x \in S : \A y \in S : x <= y

\* regexp `^\S+?\/jobs/` replaced by "": the shortest non-empty prefix without
\* white space that is followed by "/jobs/" is cut off together with it
StripRoot(s) ==
    LET pat == <<"/", "j", "o", "b", "s", "/">>
        at  == {i \in 2..Len(s) :
                    /\ HasPrefixAt(s, i, pat)
                    /\ \A k \in 1..(i - 1) : s[k] \notin Whitespace}
    IN  IF at = {} THEN s ELSE SubSeq(s, SetMin(at) + Len(pat), Len(s))

\* strings.ReplaceAll(s, old, ""), old not empty
RECURSIVE RemoveAll(_, _)
RemoveAll(s, old) ==
    IF s = <<>> THEN <<>>
    ELSE IF HasPrefixAt(s, 1, old) THEN RemoveAll(SubSeq(s, Len(old) + 1, Len(s)), old)
    ELSE <<Head(s)>> \o RemoveAll(Tail(s), old)

\* strings.Split(s, sep) for a separator of one character
RECURSIVE SplitFrom(_, _, _)
SplitFrom(s, sep, cur) ==
    IF s = <<>> THEN <<cur>>
    ELSE IF Head(s) = sep THEN <<cur>> \o SplitFrom(Tail(s), sep, <<>>)
    ELSE SplitFrom(Tail(s), sep, Append(cur, Head(s)))

Split(s, sep) == SplitFrom(s, sep, <<>>)

\* strings.Join(tokens, sep)
RECURSIVE Join(_, _)
Join(tokens, sep) ==
    IF tokens = <<>> THEN <<>>
    ELSE IF Len(tokens) = 1 THEN tokens[1]
    ELSE tokens[1] \o <<sep>> \o Join(Tail(tokens), sep)

\* job.go:71-80
SetNameAndFolder(jb) ==
    LET fixedPath == RemoveAll(StripRoot(jb.path), <<"j", "o", "b", "s", "/">>)
        tokens    == Split(fixedPath, "/")
    IN  [jb EXCEPT !.Name = tokens[Len(tokens)],
                   !.Folder = IF Len(tokens) = 1 THEN <<"/">>
                              ELSE Join(SubSeq(tokens, 1, Len(tokens) - 1), "/")]

\* a mutation of fetch that forgets the IsDir test of the builds entry
buildsDirErrNoDirTest(d) == IF d.builds = "none" THEN ErrStat ELSE Nil

\* job.go:39-47: os.Stat of the builds entry and the IsDir test
buildsDirErr(d) ==
    IF d.builds = "none" THEN ErrStat
    ELSE IF d.builds # "dir" THEN ErrNotDir
    ELSE Nil

\* Job.fetch of the job jb whose folder holds d. A panic of parseBuild is not
\* recovered: it unwinds fetch before any further statement runs.
fetch(jb, d) ==
    LET statErr == buildsDirErr(d)
        pl      == parsePermalinks(d.permalinks)
        parsed  == [cat \in Categories |->
                        parseBuild(BuildEntry(d, Permalink(pl.map, cat)))]
        j5      == [jb EXCEPT !.LastSuccessfulBuild = parsed["lastSuccessfulBuild"].build,
                              !.LastUnsuccessfulBuild = parsed["lastUnsuccessfulBuild"].build,
                              !.LastStableBuild = parsed["lastStableBuild"].build,
                              !.LastUnstableBuild = parsed["lastUnstableBuild"].build,
                              !.LastFailedBuild = parsed["lastFailedBuild"].build]
        sel     == selectLastBuild(j5)
        j6      == [j5 EXCEPT !.LastBuild = sel.build]
    IN  IF statErr # Nil THEN [job |-> jb, err |-> statErr]
        ELSE IF pl.err # Nil THEN [job |-> jb, err |-> ErrPermalinks]
        ELSE IF \E cat \in Categories : parsed[cat].err = Panic
             THEN [job |-> jb, err |-> Panic]
        ELSE IF sel.err # Nil THEN [job |-> j6, err |-> sel.err]
        ELSE [job |-> SetNameAndFolder(j6), err |-> Nil]

\* JobPath.Parse
Parse(jp, d) == fetch(NewJob(jp), d)

-----------------------------------------------------------------------------
(* Inputs of the sequential operations *)

\* the variables of the walk, while no walk runs
\* the variables of Collect, while no scan runs
IdleScan == contents = <<>> /\ gauges = <<>> /\ ch = <<>>

scanVars == <<contents, gauges, ch>>

IdleWalk ==
    /\ wpc = "idle" /\ tree = <<>> /\ opts = <<>> /\ resultChan = <<>> /\ closed = FALSE
    /\ pending = <<>> /\ walkErr = Nil /\ received = <<>>
    /\ IdleScan

walkVars == <<wpc, tree, opts, resultChan, closed, pending, walkErr, received, scanVars>>

\* "r/jobs/a" and "r/jobs/f/jobs/a"
PathTop == <<"r", "/", "j", "o", "b", "s", "/", "a">>
PathNested == <<"r", "/", "j", "o", "b", "s", "/", "f", "/", "j", "o", "b", "s", "/", "a">>

\* category builds as parseBuild can leave them in a slot: any number (a
\* BUILD_NUMBER of 0 or below parses), told apart by their timestamps
SlotBuilds ==
    {[ZeroBuild EXCEPT !.Number = n, !.Timestamp = t] :
        n \in (0 - 1)..MaxNumber, t \in {0, 1000}}

\* build.xml documents
Doc(decl, ok, result, entries) ==
    [decl |-> decl, ok |-> ok, Result |-> result, Timestamp |-> 1000,
     Duration |-> 20, Number |-> 0, Entries |-> entries]

XmlFile(doc) == [kind |-> "file", doc |-> doc]
BuildDir(xml) == [kind |-> "dir", xml |-> xml]

NumberEntry(n) == <<"BUILD_NUMBER", n>>
NameEntry == <<"JOB_NAME", <<"a">>>>

GoodDoc1 == Doc(Decl11, TRUE, "SUCCESS", <<NameEntry, NumberEntry(<<"1">>)>>)
GoodDoc2 == Doc(Decl10, TRUE, "FAILURE", <<NumberEntry(<<"2">>)>>)

\* what the build directory a permalink names can hold
FetchBuildDirs ==
    { NoFile,
      [kind |-> "file"],
      BuildDir(NoFile),
      BuildDir(XmlFile(GoodDoc1)),
      BuildDir(XmlFile(Doc(Decl10, FALSE, "", <<>>))),
      BuildDir(XmlFile(Doc(Decl10, TRUE, "SUCCESS", <<NameEntry>>))),
      BuildDir(XmlFile(Doc(Decl10, TRUE, "SUCCESS", <<NameEntry, NumberEntry(<<"x">>)>>))),
      BuildDir(XmlFile(Doc(Decl10, TRUE, "SUCCESS", <<<<"BUILD_NUMBER">>>>))) }

RECURSIVE SeqsUpTo(_, _)
SeqsUpTo(S, n) ==
    IF n = 0 THEN {<<>>}
    ELSE LET shorter == SeqsUpTo(S, n - 1)
         IN  shorter \cup {Append(q, x) : q \in {r \in shorter : Len(r) = n - 1}, x \in S}

\* lines of a permalinks file, split at the blanks
PermalinkLines ==
    {<<cat, name>> : cat \in Categories, name \in {"1", "2"}} \cup {<<"junk">>}

PermalinksFiles ==
    {NoFile} \cup {[kind |-> "file", lines |-> l] : l \in SeqsUpTo(PermalinkLines, MaxLines)}

\* job folders: without a builds entry, with a regular file of that name, or
\* with a builds directory holding a permalinks file, the build directories
\* "1" and "2" and possibly a build.xml of its own
JobFolders ==
    {[builds |-> k, permalinks |-> NoFile, dirs |-> NoEnv, xml |-> NoFile] :
        k \in {"none", "file"}}
    \cup
    {[builds |-> "dir", permalinks |-> f,
      dirs |-> [n \in {"1", "2"} |-> IF n = "1" THEN d1 ELSE d2], xml |-> x] :
        f \in PermalinksFiles, d1 \in FetchBuildDirs,
        d2 \in {NoFile, BuildDir(XmlFile(GoodDoc2))},
        x \in {NoFile, XmlFile(GoodDoc2)}}

NoDisk == [builds |-> "none", permalinks |-> NoFile, dirs |-> NoEnv, xml |-> NoFile]

-----------------------------------------------------------------------------
(* selectLastBuild as a pure function of the five category builds *)

InitSelect ==
    /\ pc = "select"
    /\ \E s, u, st, us, f \in SlotBuilds :
          job = [NewJob(PathTop) EXCEPT !.LastSuccessfulBuild = s,
                                        !.LastUnsuccessfulBuild = u,
                                        !.LastStableBuild = st,
                                        !.LastUnstableBuild = us,
                                        !.LastFailedBuild = f]
    /\ err = Nil
    /\ disk = NoDisk
    /\ IdleWalk

\* job.LastBuild, err = job.selectLastBuild()
SelectLastBuild ==
    /\ pc = "select"
    /\ LET sel == selectLastBuild(job)
       IN  /\ job' = [job EXCEPT !.LastBuild = sel.build]
           /\ err' = sel.err
    /\ pc' = "selected"
    /\ UNCHANGED <<disk, walkVars>>

SpecSelect == InitSelect /\ [][SelectLastBuild]_vars

-----------------------------------------------------------------------------
(* Job.fetch on one job folder *)

InitFetch ==
    /\ pc = "fetch"
    /\ \E jp \in {PathTop, PathNested} : job = NewJob(jp)
    /\ err = Nil
    /\ disk \in JobFolders
    /\ IdleWalk

\* err := job.fetch()
Fetch ==
    /\ pc = "fetch"
    /\ LET r == fetch(job, disk)
       IN  /\ job' = r.job
           /\ err' = r.err
    /\ pc' = "fetched"
    /\ UNCHANGED <<disk, walkVars>>

SpecFetch == InitFetch /\ [][Fetch]_vars

-----------------------------------------------------------------------------
(* Properties of selectLastBuild and Job.fetch *)

Max(a, b) == IF a >= b THEN a ELSE b

MaxSlotNumber(jb) ==
    Max(jb.LastSuccessfulBuild.Number,
        Max(jb.LastStableBuild.Number,
            Max(jb.LastUnsuccessfulBuild.Number,
                Max(jb.LastUnstableBuild.Number, jb.LastFailedBuild.Number))))

\* the priority order of the categories on equal numbers
Priority ==
    <<"lastSuccessfulBuild", "lastStableBuild", "lastUnsuccessfulBuild",
      "lastUnstableBuild", "lastFailedBuild">>

FirstWithMax(jb) ==
    SetMin({i \in 1..5 : Slot(jb, Priority[i]).Number = MaxSlotNumber(jb)})

\* C1: when at least one of the five category builds has a number >= 1, the
\* build selectLastBuild returns has the largest of the five numbers, and it
\* is the build of the first category, in the order successful, stable,
\* unsuccessful, unstable, failed, that has this number.
C1_LastBuildIsFirstMax ==
    (pc = "selected" /\ \E cat \in Categories : Slot(job, cat).Number >= 1) =>
        /\ err = Nil
        /\ job.LastBuild.Number = MaxSlotNumber(job)
        /\ job.LastBuild = Slot(job, Priority[FirstWithMax(job)])

\* a tie at the largest number between two different builds, resolved for
\* the category that comes first
C1_Witness ==
    /\ pc = "selected"
    /\ job.LastSuccessfulBuild.Number = 1
    /\ job.LastStableBuild.Number = 2
    /\ job.LastFailedBuild.Number = 2
    /\ job.LastStableBuild # job.LastFailedBuild
    /\ job.LastUnsuccessfulBuild.Number < 2
    /\ job.LastBuild = job.LastStableBuild

\* fetch went past the builds directory, the permalinks and the five parses
ReachedSelection == pc = "fetched" /\ err \in {Nil, ErrNoBuilds}

\* C2: selectLastBuild fails with NoBuildsFound when all five category builds
\* have number 0 and returns no error when one of them has a number >= 1;
\* fetch returns the error of selectLastBuild, so that it fails whenever the
\* five slots are zero.
C2_NoBuildsFound ==
    pc = "fetched" =>
        /\ (\A cat \in Categories : Slot(job, cat).Number = 0) =>
              /\ selectLastBuild(job).err \in NoBuildsFound
              /\ err # Nil
        /\ (\E cat \in Categories : Slot(job, cat).Number >= 1) =>
              selectLastBuild(job).err = Nil
        /\ ReachedSelection => err = selectLastBuild(job).err

\* all five parses ran and left five zero slots: fetch fails with the error
\* of selectLastBuild
C2_Witness ==
    /\ pc = "fetched"
    /\ disk.builds = "dir"
    /\ disk.permalinks # NoFile
    /\ \A cat \in Categories : Slot(job, cat) = ZeroBuild
    /\ err = ErrNoBuilds

\* C8: fetch on a path whose builds entry is missing or is no directory
\* returns a NotAJob error; it neither succeeds nor panics.
C8_NotAJob ==
    (pc = "fetched" /\ disk.builds # "dir") => err \in NotAJob

\* the builds entry is a regular file
C8_Witness ==
    pc = "fetched" /\ disk.builds = "file" /\ err = ErrNotDir

\* a builds directory without any entry
EmptyBuildsDir(d) ==
    /\ d.builds = "dir"
    /\ d.permalinks = NoFile
    /\ d.xml = NoFile
    /\ \A n \in DOMAIN d.dirs : d.dirs[n] = NoFile

\* C9: fetch on a job folder whose builds directory is empty fails with the
\* NoBuildsFound error of selectLastBuild and with no other error.
C9_EmptyBuildsIsNoBuildsFound ==
    (pc = "fetched" /\ EmptyBuildsDir(disk)) => err \in NoBuildsFound

ZeroFields(b) ==
    /\ b.Number = 0 /\ b.Timestamp = 0 /\ b.Duration = 0 /\ b.Result = ""
    /\ DOMAIN b.EnvVars = {}

\* the result of parseBuild for the category cat of the job folder d
CategoryParse(d, cat) ==
    parseBuild(BuildEntry(d, Permalink(parsePermalinks(d.permalinks).map, cat)))

\* C10: when parseBuild fails for a category with an error value, the slot of
\* that category is the zero-value Build (number 0, timestamp 0, duration 0,
\* empty result, no environment variables), and fetch succeeds as soon as
\* another category parsed to a build with a number >= 1.
C10_FailedCategoryIsZero ==
    (/\ pc = "fetched"
     /\ buildsDirErr(disk) = Nil
     /\ parsePermalinks(disk.permalinks).err = Nil
     /\ err # Panic) =>
        \A cat \in Categories :
            CategoryParse(disk, cat).err # Nil =>
                /\ ZeroFields(Slot(job, cat))
                /\ (\E other \in Categories \ {cat} : Slot(job, other).Number >= 1)
                       => err = Nil

\* the permalinks file is absent, or it is well formed and has no entry for
\* at least one category
MissingOrPartialIndex(d) ==
    \/ d.permalinks = NoFile
    \/ /\ parsePermalinks(d.permalinks).err = Nil
       /\ \E cat \in Categories : cat \notin DOMAIN parsePermalinks(d.permalinks).map

\* C11: fetch tolerates a missing or partial permalinks index: when the
\* permalinks file of the builds directory is absent or has no entry for some
\* category, fetch does not fail because of the index, and every category
\* without an entry is left with the zero-value slot.
C11_MissingIndexTolerated ==
    (pc = "fetched" /\ disk.builds = "dir" /\ MissingOrPartialIndex(disk)) =>
        /\ err # ErrPermalinks
        /\ err \in {Nil, ErrNoBuilds} =>
              \A cat \in Categories :
                  cat \notin DOMAIN parsePermalinks(disk.permalinks).map =>
                      ZeroFields(Slot(job, cat))

-----------------------------------------------------------------------------
(* Job.fetch on job paths of any names *)

\* names of job directories: a, f, jobs, myjobs and "a b"
SegmentNames ==
    { <<"a">>, <<"f">>, <<"j", "o", "b", "s">>, <<"m", "y", "j", "o", "b", "s">>,
      <<"a", " ", "b">> }

SegmentLists == SeqsUpTo(SegmentNames, MaxSegments) \ {<<>>}

\* filepath.Join(path, "jobs", name), from the root r down the names of segs
RECURSIVE JobPathOf(_)
JobPathOf(segs) ==
    IF segs = <<>> THEN <<"r">>
    ELSE JobPathOf(SubSeq(segs, 1, Len(segs) - 1))
           \o <<"/", "j", "o", "b", "s", "/">> \o segs[Len(segs)]

\* a job folder whose last successful build is build 1
GoodJobFolder ==
    [builds |-> "dir",
     permalinks |-> [kind |-> "file", lines |-> <<<<"lastSuccessfulBuild", "1">>>>],
     dirs |-> [n \in {"1", "2"} |-> IF n = "1" THEN BuildDir(XmlFile(GoodDoc1)) ELSE NoFile],
     xml |-> NoFile]

InitName ==
    /\ pc = "fetch"
    /\ \E segs \in SegmentLists : job = NewJob(JobPathOf(segs))
    /\ err = Nil
    /\ disk \in {GoodJobFolder, NoDisk}
    /\ IdleWalk

SpecName == InitName /\ [][Fetch]_vars

\* C12: for every job path <root>/jobs/s1/jobs/s2/.../jobs/sn on which fetch
\* succeeds, Name is sn and Folder is "/" when n = 1 and s1/.../s(n-1)
\* otherwise, also when some s_i ends in the letters "jobs".
C12_NameAndFolder ==
    (pc = "fetched" /\ err = Nil) =>
        \A segs \in SegmentLists :
            job.path = JobPathOf(segs) =>
                /\ job.Name = segs[Len(segs)]
                /\ job.Folder = IF Len(segs) = 1 THEN <<"/">>
                                ELSE Join(SubSeq(segs, 1, Len(segs) - 1), "/")

-----------------------------------------------------------------------------
(* parseBuild on one build directory *)

\* the entries of the environment section: a name and a value, a
\* BUILD_NUMBER of several forms, an entry of one string and an entry of none
EnvEntries ==
    { NameEntry, <<"BUILD_NUMBER">>, <<>> }
    \cup {NumberEntry(v) : v \in {<<"1">>, <<"0">>, <<"-", "1">>, <<"x">>, <<"1", "2">>}}

BuildDocs ==
    {[decl |-> d, ok |-> k, Result |-> "SUCCESS", Timestamp |-> 1000, Duration |-> 20,
      Number |-> n, Entries |-> e] :
        d \in {Decl11, Decl10, Decl11Quoted, NoDecl}, k \in BOOLEAN, n \in {0, 3},
        e \in SeqsUpTo(EnvEntries, MaxEntries)}

\* what parseBuild can find at the build path
BuildEntries ==
    {NoFile, [kind |-> "file"], BuildDir(NoFile), BuildDir([kind |-> "dir"])}
    \cup {BuildDir(XmlFile(doc)) : doc \in BuildDocs}

InitBuild ==
    /\ pc = "build"
    /\ job = NewJob(PathTop)
    /\ err = Nil
    /\ disk \in BuildEntries
    /\ IdleWalk

\* job.LastSuccessfulBuild, err = parseBuild(path); a panic unwinds the
\* caller before the assignment
ParseBuild ==
    /\ pc = "build"
    /\ LET r == parseBuild(disk)
       IN  /\ job' = IF r.err = Panic THEN job
                     ELSE [job EXCEPT !.LastSuccessfulBuild = r.build]
           /\ err' = r.err
    /\ pc' = "built"
    /\ UNCHANGED <<disk, walkVars>>

SpecBuild == InitBuild /\ [][ParseBuild]_vars

\* the error kinds of the design
MalformedData == {"xml", "strconv"}

HasDoc(entry) == entry.kind = "dir" /\ entry.xml.kind = "file"

\* the value of the last BUILD_NUMBER entry of the document is an integer >= 1
PositiveBuildNumber(doc) ==
    \E i \in 1..Len(doc.Entries) :
        /\ Len(doc.Entries[i]) >= 2 /\ doc.Entries[i][1] = "BUILD_NUMBER"
        /\ \A k \in (i + 1)..Len(doc.Entries) :
               Len(doc.Entries[k]) >= 1 => doc.Entries[k][1] # "BUILD_NUMBER"
        /\ ParseInt(doc.Entries[i][2]).err = Nil
        /\ ParseInt(doc.Entries[i][2]).val >= 1

\* C13: parseBuild returns without error only when the number of the build it
\* yields is an integer >= 1; when neither the number field nor the
\* BUILD_NUMBER entry yields such an integer (the entry is absent, not
\* numeric, zero or negative), parseBuild fails with MalformedData. (The runs
\* that panic are the matter of C14.)
C13_NumberIsPositive ==
    (pc = "built" /\ err # Panic) =>
        /\ err = Nil => job.LastSuccessfulBuild.Number >= 1
        /\ (/\ HasDoc(disk)
            /\ disk.xml.doc.Number < 1
            /\ ~PositiveBuildNumber(disk.xml.doc)) => err \in MalformedData

\* C14: parseBuild never panics: for every build.xml, also one whose
\* environment section has an entry of fewer than two strings, the outcome is
\* a Build or an error value.
C14_NeverPanics ==
    pc = "built" => err # Panic

-----------------------------------------------------------------------------
(* The walk over the job tree: jobpath.go *)

\* A folder is a record [jobs, builds, config, kids]: the kinds of its entries
\* named jobs and builds ("none", "file" or "dir"), whether it holds a
\* config.xml, and the entries of its jobs directory in the order of
\* ioutil.ReadDir (sorted by name). An entry is [name, isDir, folder].
\* A path is the sequence of the folder names from the root: <<"r", "a">>
\* is r/jobs/a, and its last element is its filepath.Base.
Base(path) == path[Len(path)]

ErrTraversal == "parsing paths failed"

\* a mutation of contains that finds nothing
containsNothing(needle, haystack) == FALSE

contains(needle, haystack) ==
    \E i \in 1..Len(haystack) : haystack[i] = needle

\* a mutation of parseBuildPath that does not look for the builds entry
parseBuildPathNoStat(path, folder) == [out |-> <<path>>, err |-> Nil]

parseBuildPath(path, folder) ==
    IF folder.builds = "none" THEN [out |-> <<>>, err |-> "stat"]
    ELSE [out |-> <<path>>, err |-> Nil]

\* a mutation of the test at the end of parseJobFolder that does not look for
\* config.xml
folderErrNoConfigTest(folder, childErr, buildErr) ==
    IF childErr # Nil /\ buildErr # Nil THEN ErrTraversal ELSE Nil

\* jobpath.go:70-78
folderErr(folder, childErr, buildErr) ==
    IF childErr # Nil /\ buildErr # Nil /\ ~folder.config THEN ErrTraversal ELSE Nil

\* a mutation of the order of the two calls of parseJobFolder
emitOrderSelfFirst(childOut, buildOut) == buildOut \o childOut

\* the sends of parseChildJobs come before the send of parseBuildPath
emitOrder(childOut, buildOut) == childOut \o buildOut

RECURSIVE parseJobFolder(_, _, _), parseChildJobs(_, _, _), childLoop(_, _, _)

\* the result is the sequence of the sends on resultChan, in order, and the
\* error returned
parseJobFolder(path, folder, ignoreList) ==
    IF contains(Base(path), ignoreList) THEN [out |-> <<>>, err |-> Nil]
    ELSE LET child == parseChildJobs(path, folder, ignoreList)
             build == parseBuildPath(path, folder)
         IN  [out |-> emitOrder(child.out, build.out),
              err |-> folderErr(folder, child.err, build.err)]

parseChildJobs(path, folder, ignoreList) ==
    IF folder.jobs = "none" THEN [out |-> <<>>, err |-> "stat"]
    ELSE IF folder.jobs = "file" THEN [out |-> <<>>, err |-> "readdir"]
    ELSE childLoop(path, folder.kids, ignoreList)

\* the loop over jobDirs: an entry that is no directory is skipped, the
\* first error of a child ends the loop
childLoop(path, jobDirs, ignoreList) ==
    IF jobDirs = <<>> THEN [out |-> <<>>, err |-> Nil]
    ELSE LET jobDir == Head(jobDirs)
         IN  IF ~jobDir.isDir THEN childLoop(path, Tail(jobDirs), ignoreList)
             ELSE LET r == parseJobFolder(Append(path, jobDir.name), jobDir.folder,
                                           ignoreList)
                      rest == childLoop(path, Tail(jobDirs), ignoreList)
                  IN  IF r.err # Nil THEN r
                      ELSE [out |-> r.out \o rest.out, err |-> rest.err]

\* the name of the root directory
RootPath == <<"r">>

(* The trees of the model *)

NoFolder == [jobs |-> "none", builds |-> "none", config |-> FALSE, kids |-> <<>>]
FileEntry(name) == [name |-> name, isDir |-> FALSE, folder |-> NoFolder]
DirEntry(name, folder) == [name |-> name, isDir |-> TRUE, folder |-> folder]

Kinds(odd) == IF odd THEN {"none", "file", "dir"} ELSE {"none", "dir"}

\* the folders with exactly n folders below them; the entries of a jobs
\* directory are named a and b
RECURSIVE FoldersOfSize(_, _)
FoldersOfSize(n, odd) ==
    IF n = 0
    THEN {[jobs |-> j, builds |-> b, config |-> c, kids |-> <<>>] :
              j \in Kinds(odd), b \in Kinds(odd), c \in BOOLEAN}
         \cup
         {[jobs |-> "dir", builds |-> b, config |-> c, kids |-> <<FileEntry("a")>>] :
              b \in IF odd THEN Kinds(odd) ELSE {}, c \in BOOLEAN}
    ELSE LET one == FoldersOfSize(n - 1, odd)
             listings ==
                 {<<DirEntry("a", f)>> : f \in one}
                 \cup {<<DirEntry("b", f)>> : f \in one}
                 \cup (IF odd THEN {<<FileEntry("a"), DirEntry("b", f)>> : f \in one}
                       ELSE {})
                 \cup UNION {{<<DirEntry("a", f), DirEntry("b", g)>> :
                                  f \in FoldersOfSize(i, odd),
                                  g \in FoldersOfSize(n - 2 - i, odd)} :
                             i \in 0..(n - 2)}
         IN  {[jobs |-> "dir", builds |-> b, config |-> c, kids |-> l] :
                  b \in Kinds(odd), c \in BOOLEAN, l \in listings}

Trees ==
    UNION {FoldersOfSize(n, FALSE) : n \in 0..MaxFolders}
    \cup UNION {FoldersOfSize(n, TRUE) : n \in 0..MaxOddFolders}

IgnoreLists == {<<>>, <<"a">>, <<"b">>, <<"r">>}

\* the variables of Job.fetch, while the walk is analysed
IdleJob == job = NewJob(<<>>) /\ err = Nil /\ disk = NoDisk

Init ==
    /\ pc = "receiving"
    /\ wpc = "start"
    /\ tree \in Trees
    /\ opts \in IgnoreLists
    /\ resultChan = <<>>
    /\ closed = FALSE
    /\ pending = <<>>
    /\ walkErr = Nil
    /\ received = <<>>
    /\ IdleJob
    /\ IdleScan

\* the goroutine calls GetJobPaths, which calls parseJobFolder on the root;
\* pending holds the sends of the call that have not taken place yet and
\* walkErr the error the call returns after the last of them
StartWalk ==
    /\ wpc = "start"
    /\ LET r == parseJobFolder(RootPath, tree, opts)
       IN  /\ pending' = r.out
           /\ walkErr' = r.err
    /\ wpc' = "walking"
    /\ UNCHANGED <<pc, job, err, disk, tree, opts, resultChan, closed, received, scanVars>>

\* resultChan <- JobPath(path): the channel has no buffer, the send blocks
\* until the value has been received
Send ==
    /\ wpc = "walking"
    /\ pending # <<>>
    /\ resultChan = <<>>
    /\ resultChan' = <<Head(pending)>>
    /\ pending' = Tail(pending)
    /\ UNCHANGED <<pc, wpc, job, err, disk, tree, opts, closed, walkErr, received, scanVars>>

\* a mutation of the receive that leaves the value in the channel
ReceiveKeep ==
    /\ pc = "receiving"
    /\ resultChan # <<>>
    /\ Len(received) < 4
    /\ received' = Append(received, resultChan[1])
    /\ UNCHANGED <<pc, wpc, job, err, disk, tree, opts, resultChan, closed, pending, walkErr,
                   scanVars>>

\* one iteration of "for jobPath := range jobPaths"
Receive ==
    /\ pc = "receiving"
    /\ resultChan # <<>>
    /\ received' = Append(received, resultChan[1])
    /\ resultChan' = <<>>
    /\ UNCHANGED <<pc, wpc, job, err, disk, tree, opts, closed, pending, walkErr, scanVars>>

\* a mutation of GetJobPaths without the deferred close
ReturnNoClose ==
    /\ wpc = "walking"
    /\ pending = <<>>
    /\ resultChan = <<>>
    /\ wpc' = "returned"
    /\ UNCHANGED <<pc, job, err, disk, tree, opts, resultChan, closed, pending, walkErr,
                   received, scanVars>>

\* GetJobPaths returns walkErr; its deferred close(resultChan) runs
Return ==
    /\ wpc = "walking"
    /\ pending = <<>>
    /\ resultChan = <<>>
    /\ closed' = TRUE
    /\ wpc' = "returned"
    /\ UNCHANGED <<pc, job, err, disk, tree, opts, resultChan, pending, walkErr, received,
                   scanVars>>

\* the range loop ends on the closed channel
EndOfRange ==
    /\ pc = "receiving"
    /\ closed
    /\ resultChan = <<>>
    /\ pc' = "done"
    /\ UNCHANGED <<wpc, job, err, disk, tree, opts, resultChan, closed, pending,
                   walkErr, received, scanVars>>

Next == StartWalk \/ Send \/ Receive \/ Return \/ EndOfRange

Spec == Init /\ [][Next]_vars

\* the goroutine of the walk and the receiving goroutine are both scheduled
\* as long as they can take a step
FairSpec ==
    /\ Spec
    /\ WF_vars(StartWalk \/ Send \/ Return)
    /\ WF_vars(Receive \/ EndOfRange)

-----------------------------------------------------------------------------
(* Properties of the walk *)

Range(q) == {q[i] : i \in 1..Len(q)}

\* the folder and all folders below it, each with its path
RECURSIVE FoldersBelow(_, _)
FoldersBelow(path, folder) ==
    {[path |-> path, folder |-> folder]}
    \cup UNION {FoldersBelow(Append(path, folder.kids[i].name), folder.kids[i].folder) :
                    i \in {k \in 1..Len(folder.kids) : folder.kids[k].isDir}}

AllFolders == FoldersBelow(RootPath, tree)

\* the path has a name of the ignore list: that of the folder or of a folder
\* above it
Ignored(path) == \E i \in 1..Len(path) : path[i] \in Range(opts)

\* everything the walker has put or is going to put on the channel
Emitted == Range(received) \cup Range(resultChan) \cup Range(pending)

\* a job folder is well formed when it has a jobs directory, a builds
\* directory or a config.xml, and when its entry named builds, if there is
\* one, is a directory
WellFormed(folder) ==
    /\ folder.jobs = "dir" \/ folder.builds = "dir" \/ folder.config
    /\ folder.builds # "file"

Malformed(folder) ==
    folder.jobs = "none" /\ folder.builds = "none" /\ ~folder.config

\* the folder without the folder at the path rel below it
RECURSIVE RemoveFolder(_, _)
RemoveFolder(folder, rel) ==
    LET Other(e) == e.name # rel[1]
        Descend(e) == IF e.name = rel[1] /\ e.isDir
                      THEN [e EXCEPT !.folder = RemoveFolder(@, Tail(rel))]
                      ELSE e
    IN  IF Len(rel) = 1 THEN [folder EXCEPT !.kids = SelectSeq(@, Other)]
        ELSE [folder EXCEPT !.kids = [i \in 1..Len(@) |-> Descend(@[i])]]

\* the sends of the walk on the tree without the folder at path
SendsWithout(path) ==
    Range(parseJobFolder(RootPath, RemoveFolder(tree, Tail(path)), opts).out)

IsBelow(path, top) == Len(path) >= Len(top) /\ SubSeq(path, 1, Len(top)) = top

\* C4: a malformed child of d/jobs raises a traversal error for that child
\* only: the job paths at and below each of its siblings are emitted exactly
\* as they are when the malformed child is absent, wherever the child stands
\* in the listing of d/jobs.
C4_SiblingsUnaffected ==
    wpc = "returned" =>
        \A d \in {x \in AllFolders : ~Ignored(x.path)} :
            \A i, j \in 1..Len(d.folder.kids) :
                LET bad  == d.folder.kids[i]
                    sib  == d.folder.kids[j]
                    badPath == Append(d.path, bad.name)
                    sibPath == Append(d.path, sib.name)
                IN  (/\ i # j /\ bad.isDir /\ sib.isDir
                     /\ Malformed(bad.folder) /\ ~Ignored(badPath)) =>
                        {p \in Range(received) : IsBelow(p, sibPath)}
                          = {p \in SendsWithout(badPath) : IsBelow(p, sibPath)}

\* C5: GetJobPaths returns an error only when reading the root itself
\* fails: when the jobs directory of the root has been read, a malformed
\* folder below the root never makes GetJobPaths return an error.
C5_OnlyRootFails ==
    (wpc = "returned" /\ tree.jobs = "dir") => walkErr = Nil

\* a folder with config.xml, without a jobs directory and without builds
EmptyFolder(folder) ==
    folder.config /\ folder.jobs # "dir" /\ folder.builds = "none"

C7_IgnoredSubtree ==
    /\ \A p \in Emitted : ~Ignored(p)
    /\ wpc # "start" =>
          \A x \in AllFolders :
              Base(x.path) \in Range(opts) =>
                  parseJobFolder(x.path, x.folder, opts) = [out |-> <<>>, err |-> Nil]
    /\ (wpc = "returned" /\ Base(RootPath) \in Range(opts)) =>
          (walkErr = Nil /\ received = <<>>)

\* the ignored folder a holds builds and a job below it; only the root is
\* emitted
C7_Witness ==
    /\ wpc = "returned"
    /\ opts = <<"a">>
    /\ tree.builds = "dir"
    /\ Len(tree.kids) = 1
    /\ tree.kids[1].name = "a" /\ tree.kids[1].isDir
    /\ tree.kids[1].folder.builds = "dir"
    /\ \E x \in FoldersBelow(<<"r", "a">>, tree.kids[1].folder) :
          Base(x.path) = "b" /\ x.folder.builds = "dir"
    /\ received = <<RootPath>>
    /\ walkErr = Nil

\* C18: with a receiver that keeps receiving, GetJobPaths returns in the end
\* and the receive loop ends; the channel is closed once, by the return of
\* GetJobPaths with or without an error, after the last send was received,
\* and it stays closed.
C18_WalkTerminates ==
    /\ <>[](wpc = "returned" /\ closed /\ pc = "done")
    /\ [][closed' # closed =>
             /\ ~closed /\ wpc = "walking" /\ wpc' = "returned"
             /\ pending = <<>> /\ resultChan = <<>>]_vars
    /\ [][wpc = "returned" => (wpc' = "returned" /\ closed')]_vars
    /\ [](closed => received = parseJobFolder(RootPath, tree, opts).out)

\* GetJobPaths returned an error after a send and closed the channel; the
\* receive loop ended
C18_Witness ==
    /\ wpc = "returned" /\ closed /\ pc = "done"
    /\ walkErr # Nil
    /\ Len(received) = 1

NoDuplicates(q) == \A i, j \in 1..Len(q) : q[i] = q[j] => i = j

\* C19: no directory is emitted more than once, and every JobPath put on the
\* channel is received exactly once: at any time the paths received, the
\* path in the channel and the sends still to come make up the sends of the
\* walk, in order and without a repetition, and all of them have been
\* received when the receive loop ends.
C19_ExactlyOnce ==
    wpc # "start" =>
        /\ received \o resultChan \o pending = parseJobFolder(RootPath, tree, opts).out
        /\ NoDuplicates(received \o resultChan \o pending)
        /\ pc = "done" => received = parseJobFolder(RootPath, tree, opts).out

\* three job folders were emitted and received
C19_Witness ==
    /\ pc = "done"
    /\ Len(received) = 3
    /\ Cardinality(Range(received)) = 3

\* C20: the walker emits in depth-first pre-order: a folder that holds builds
\* is put on the channel before every folder below it that is emitted.
C20_PreOrder ==
    \A i, j \in 1..Len(received) :
        (received[i] # received[j] /\ IsBelow(received[j], received[i])) => i < j

-----------------------------------------------------------------------------
(* Collector.Collect: main.go *)

\* the path string of the folder the walker reached down the names of path
PathString(path) == JobPathOf([i \in 1..(Len(path) - 1) |-> <<path[i + 1]>>])

\* the folder at path below folder (the folder itself for the empty path)
RECURSIVE FolderAt(_, _)
FolderAt(folder, rel) ==
    IF rel = <<>> THEN folder
    ELSE LET i == CHOOSE k \in 1..Len(folder.kids) : folder.kids[k].name = Head(rel)
         IN  FolderAt(folder.kids[i].folder, Tail(rel))

\* a builds directory whose permalinks name no build
NoBuildsJobFolder ==
    [GoodJobFolder EXCEPT !.permalinks = [kind |-> "file", lines |-> <<>>]]

\* a builds directory whose build 1 has an environment entry of one string
PanicJobFolder ==
    [GoodJobFolder EXCEPT
        !.dirs = [n \in {"1", "2"} |->
                     IF n = "1"
                     THEN BuildDir(XmlFile(Doc(Decl10, TRUE, "SUCCESS", <<<<"BUILD_NUMBER">>>>)))
                     ELSE NoFile]]

\* the builds directories of the folders named r, a and b: all of them good,
\* or that of one name without builds or with the panicking build.xml
ContentChoices ==
    {[n \in {"r", "a", "b"} |-> IF n = bad THEN d ELSE GoodJobFolder] :
        bad \in {"r", "a", "b"}, d \in {GoodJobFolder, NoBuildsJobFolder, PanicJobFolder}}

\* what Job.fetch finds in the job folder at path
DiskAt(path) ==
    LET folder == FolderAt(tree, Tail(path))
    IN  IF folder.builds = "dir" THEN contents[Base(path)]
        ELSE [NoDisk EXCEPT !.builds = folder.builds]

NaN == "NaN"

\* the three values Collect sets for a build
Sample(b) == [Number |-> b.Number, Timestamp |-> b.Timestamp, Duration |-> b.Duration]

\* main.go:249-301: the values set for the labels of one job; the gauges of
\* a category whose build has number 0 are set to NaN
GaugeValues(jb) ==
    [m \in Categories \cup {"lastBuild"} |->
        IF m = "lastBuild" THEN Sample(jb.LastBuild)
        ELSE IF Slot(jb, m).Number # 0 THEN Sample(Slot(jb, m))
        ELSE NaN]

\* WithLabelValues(job.Folder, job.Name).Set(...) on every GaugeVec
SetGauges(g, jb) ==
    LET labels == <<jb.Folder, jb.Name>>
    IN  [l \in DOMAIN g \cup {labels} |-> IF l = labels THEN GaugeValues(jb) ELSE g[l]]

UpMetric(v) == [metric |-> "up", value |-> v]

InitCollect ==
    /\ pc = "receiving"
    /\ wpc = "start"
    /\ tree \in Trees
    /\ opts = <<>>
    /\ resultChan = <<>>
    /\ closed = FALSE
    /\ pending = <<>>
    /\ walkErr = Nil
    /\ received = <<>>
    /\ IdleJob
    /\ contents \in ContentChoices
    /\ gauges = <<>>
    /\ ch = <<>>

\* one iteration of the range loop of Collect: the path is received and
\* parsed; on an error the loop continues, a panic of Parse unwinds Collect,
\* otherwise the gauges of the job are set
ParsePath ==
    /\ pc = "receiving"
    /\ resultChan # <<>>
    /\ LET jobPath == resultChan[1]
           r == Parse(PathString(jobPath), DiskAt(jobPath))
       IN  /\ received' = Append(received, jobPath)
           /\ disk' = DiskAt(jobPath)
           /\ job' = r.job
           /\ err' = r.err
           /\ pc' = IF r.err = Panic THEN "panicked" ELSE pc
           /\ gauges' = IF r.err = Nil THEN SetGauges(gauges, r.job) ELSE gauges
    /\ resultChan' = <<>>
    /\ UNCHANGED <<wpc, tree, opts, closed, pending, walkErr, contents, ch>>

\* the goroutine of Collect after GetJobPaths returned: up is 0 on an error
\* and 1 otherwise
SendUp ==
    /\ wpc = "returned"
    /\ ch' = Append(ch, UpMetric(IF walkErr # Nil THEN 0 ELSE 1))
    /\ wpc' = "exited"
    /\ UNCHANGED <<pc, job, err, disk, tree, opts, resultChan, closed, pending, walkErr,
                   received, contents, gauges>>

\* the range loop ends on the closed channel; every GaugeVec is collected
\* into ch and Collect returns
FinishCollect ==
    /\ pc = "receiving"
    /\ closed
    /\ resultChan = <<>>
    /\ ch' = Append(ch, [metric |-> "gauges", value |-> gauges])
    /\ pc' = "returned"
    /\ UNCHANGED <<wpc, job, err, disk, tree, opts, resultChan, closed, pending, walkErr,
                   received, contents, gauges>>

NextCollect == StartWalk \/ Send \/ ParsePath \/ Return \/ SendUp \/ FinishCollect

SpecCollect == InitCollect /\ [][NextCollect]_vars

-----------------------------------------------------------------------------
(* Collect called again and again on the same Collector *)

ScanTrees == UNION {FoldersOfSize(n, FALSE) : n \in 0..MaxScanFolders}

InitScans ==
    /\ pc = "receiving"
    /\ wpc = "start"
    /\ tree \in ScanTrees
    /\ opts = <<>>
    /\ resultChan = <<>>
    /\ closed = FALSE
    /\ pending = <<>>
    /\ walkErr = Nil
    /\ received = <<>>
    /\ IdleJob
    /\ contents \in ContentChoices
    /\ gauges = <<>>
    /\ ch = <<>>

\* the next call of Collect on the same Collector, on whatever the disk holds
\* by then: the mutex was released by the return (or the panic) of the call
\* before, whose goroutine has exited or stays blocked in its send; the call
\* gets a new output channel, makes a new jobPaths channel and starts a new
\* goroutine. The GaugeVecs are fields of the Collector and are not reset.
NextScan ==
    /\ \/ pc = "returned" /\ wpc = "exited"
       \/ pc = "panicked" /\ (wpc = "exited" \/ resultChan # <<>>)
    /\ tree' \in ScanTrees
    /\ contents' \in ContentChoices
    /\ pc' = "receiving"
    /\ wpc' = "start"
    /\ resultChan' = <<>>
    /\ closed' = FALSE
    /\ pending' = <<>>
    /\ walkErr' = Nil
    /\ received' = <<>>
    /\ job' = NewJob(<<>>)
    /\ err' = Nil
    /\ disk' = NoDisk
    /\ ch' = <<>>
    /\ UNCHANGED <<opts, gauges>>

NextScans ==
    StartWalk \/ Send \/ ParsePath \/ Return \/ SendUp \/ FinishCollect \/ NextScan

SpecScans == InitScans /\ [][NextScans]_vars

-----------------------------------------------------------------------------
(* Properties of Collect *)

\* the outcome of JobPath.Parse for the path the walker emitted
ParseOf(path) == Parse(PathString(path), DiskAt(path))

\* the label values of the jobs among paths whose Parse succeeds
LabelsOf(paths) ==
    {<<ParseOf(p).job.Folder, ParseOf(p).job.Name>> :
        p \in {q \in paths : ParseOf(q).err = Nil}}

\* the sends and the error of the walk of the scan
WalkOfScan == parseJobFolder(RootPath, tree, opts)

\* C16: a job path whose Parse fails is dropped and leaves no job record in
\* the scan, and the failure is not propagated: Collect goes on, every path
\* the walker emits after it is received and processed, and the up signal
\* is what the walk alone makes it.
C16_ParseFailureDropped ==
    /\ pc # "panicked"
    /\ DOMAIN gauges = LabelsOf(Range(received))
    /\ pc = "returned" => received = WalkOfScan.out
    /\ \A i \in 1..Len(ch) :
           ch[i].metric = "up" => ch[i].value = IF WalkOfScan.err = Nil THEN 1 ELSE 0

\* C17: a scan ends in one of two outcomes: up is 1, together with the jobs
\* found, or up is 0 and no job path of the scan was processed: up is never
\* 0 after a job path of the scan was emitted and processed. (That the walk
\* fails only on the root is the matter of C5.)
C17_UpZeroMeansNoJobs ==
    \A i \in 1..Len(ch) :
        ch[i].metric = "up" =>
            /\ ch[i].value \in {0, 1}
            /\ ch[i].value = 0 => (received = <<>> /\ gauges = <<>>)

\* C21: every scan starts from an empty state: over any sequence of calls of
\* Collect, the values a scan exposes are exactly those of the jobs found and
\* parsed in that scan; a job of an earlier scan that is gone from the tree,
\* or whose Parse fails now, has no values in the output of the scan.
C21_ScanStartsEmpty ==
    \A i \in 1..Len(ch) :
        ch[i].metric = "gauges" =>
            /\ DOMAIN ch[i].value = LabelsOf(Range(received))
            /\ \A p \in Range(received) :
                   ParseOf(p).err = Nil =>
                       ch[i].value[<<ParseOf(p).job.Folder, ParseOf(p).job.Name>>]
                           = GaugeValues(ParseOf(p).job)

\* the number of up samples sent on ch so far
UpCount == Cardinality({i \in 1..Len(ch) : ch[i].metric = "up"})

\* C22: in every interleaving of the goroutine of the walk and the body of
\* Collect, one up sample is sent per call of Collect, and it is sent before
\* Collect returns: once Collect has returned the up sample is on ch and the
\* goroutine sends nothing more.
C22_UpSentBeforeReturn ==
    /\ UpCount <= 1
    /\ pc = "returned" => (UpCount = 1 /\ ch[Len(ch)].metric # "up")

====
